---- MODULE Spec2Model ----
(***************************************************************************)
(* Room-occupancy analysis of gabrielca5/search_classes.                    *)
(*   src/main.py          extrair_dados_xml, agrupar_horarios_30min,        *)
(*                        processar_disponibilidade                         *)
(*   src/buscar_curso.py  buscar_horarios_sala_referencia,                  *)
(*                        buscar_salas_livres, sugerir_salas_alternativas   *)
(*                                                                          *)
(* A Python str is a tuple of one-character strings, so that strip, upper,  *)
(* split, int(), the f-string formats and the code-point order used by      *)
(* sorted() are computed, not assumed.  A <CalendarioEvento> is a record    *)
(* that gives, for each tag, the tuple of the texts of its child elements   *)
(* with that tag (empty when the element is absent).                        *)
(***************************************************************************)
EXTENDS Integers, Sequences, FiniteSets, TLC

VARIABLES
  xml_content,                \* the events of the fetched feed, in feed order
  pc,                         \* position of the run
  idx,                        \* number of events the extraction loop has consumed
  mapa_ocupacao_completo,     \* dict horario -> sala -> {predio, curso}, in insertion order
  mapa_predios,               \* dict sala -> predio
  todos_horarios_originais,   \* set of "inicio - termino" strings
  horarios_agrupados,         \* sorted list of block starts "HH:MM"
  resultado,                  \* {salas_disponiveis, salas_ocupadas} of processar_disponibilidade
  chamada,                    \* the last resolver call: its name, arguments and result
  programa,                   \* the entry point that runs: main.py or buscar_curso.py
  servidor,                   \* the complete body the feed URL serves
  max_tentativas,             \* argument of buscar_xml_com_retry
  tentativa,                  \* requests made so far by buscar_xml_com_retry
  erros,                      \* requests that raised a RequestException
  retorno,                    \* what buscar_xml_com_retry returned
  passos                      \* the steps main() has executed after the fetch, in order

\* the variables of the entry points and of the fetch
vars_main == <<programa, servidor, max_tentativas, tentativa, erros, retorno, passos>>

vars == <<xml_content, pc, idx, mapa_ocupacao_completo, mapa_predios,
          todos_horarios_originais, horarios_agrupados, resultado, chamada,
          programa, servidor, max_tentativas, tentativa, erros, retorno, passos>>

(***************************************************************************)
(* Python str operations                                                    *)
(***************************************************************************)

\* The characters of the model in code-point order (" " 32, "-" 45, digits,
\* ":" 58, upper case, lower case): the order sorted() uses on str.
CodePoints ==
  <<" ", "-", "0", "1", "2", "3", "4", "5", "6", "7", "8", "9", ":",
    "A", "B", "C", "M", "S", "T", "a", "c", "m", "s">>

Ord(c) == CHOOSE k \in 1..Len(CodePoints) : CodePoints[k] = c

Digits == <<"0", "1", "2", "3", "4", "5", "6", "7", "8", "9">>

IsDigit(c) == \E k \in 1..10 : Digits[k] = c

DigitValue(c) == (CHOOSE k \in 1..10 : Digits[k] = c) - 1

\* str < str : lexicographic on code points
RECURSIVE StrLess(_, _)
StrLess(a, b) ==
  IF b = <<>> THEN FALSE
  ELSE IF a = <<>> THEN TRUE
  ELSE IF Ord(Head(a)) # Ord(Head(b)) THEN Ord(Head(a)) < Ord(Head(b))
  ELSE StrLess(Tail(a), Tail(b))

\* sorted(set of str)
RECURSIVE SortedStr(_)
SortedStr(S) ==
  IF S = {} THEN <<>>
  ELSE LET m == CHOOSE x \in S : \A y \in S \ {x} : StrLess(x, y)
       IN  <<m>> \o SortedStr(S \ {m})

\* str.strip()
RECURSIVE LStrip(_)
LStrip(s) == IF s # <<>> /\ Head(s) = " " THEN LStrip(Tail(s)) ELSE s

RECURSIVE RStrip(_)
RStrip(s) ==
  IF s # <<>> /\ s[Len(s)] = " " THEN RStrip(SubSeq(s, 1, Len(s) - 1)) ELSE s

Strip(s) == RStrip(LStrip(s))

\* str.upper()
UpperChar(c) ==
  CASE c = "a" -> "A"
    [] c = "c" -> "C"
    [] c = "m" -> "M"
    [] c = "s" -> "S"
    [] OTHER   -> c

Upper(s) == [k \in 1..Len(s) |-> UpperChar(s[k])]

\* str.split(sep): the list of the parts between the occurrences of sep
StartsAt(s, k, sep) ==
  /\ k + Len(sep) - 1 <= Len(s)
  /\ SubSeq(s, k, k + Len(sep) - 1) = sep

RECURSIVE SplitFrom(_, _, _, _)
SplitFrom(s, sep, k, start) ==
  IF k > Len(s) THEN <<SubSeq(s, start, Len(s))>>
  ELSE IF StartsAt(s, k, sep)
       THEN <<SubSeq(s, start, k - 1)>> \o SplitFrom(s, sep, k + Len(sep), k + Len(sep))
       ELSE SplitFrom(s, sep, k + 1, start)

Split(s, sep) == SplitFrom(s, sep, 1, 1)

\* int(str): defined on non-empty digit strings; anything else raises ValueError
IsInt(s) == s # <<>> /\ \A k \in 1..Len(s) : IsDigit(s[k])

RECURSIVE ToInt(_)
ToInt(s) ==
  IF s = <<>> THEN 0 ELSE 10 * ToInt(SubSeq(s, 1, Len(s) - 1)) + DigitValue(s[Len(s)])

\* f"{n:02d}" for 0 <= n < 100
Fmt02d(n) == <<Digits[(n \div 10) + 1], Digits[(n % 10) + 1]>>

\* f"{h:02d}:{m:02d}"
FormatHM(h, m) == Fmt02d(h) \o <<":">> \o Fmt02d(m)

Sep == <<" ", "-", " ">>

\* f"{a} - {b}"
FormatIntervalo(a, b) == a \o Sep \o b

(***************************************************************************)
(* src/main.py helpers                                                      *)
(***************************************************************************)

\* h, m = map(int, s.split(':')); return h*60+m -- except: return 0
converter_horario_para_minutos(horario_str) ==
  LET p == Split(horario_str, <<":">>)
  IN  IF Len(p) = 2 /\ IsInt(p[1]) /\ IsInt(p[2])
      THEN ToInt(p[1]) * 60 + ToInt(p[2])
      ELSE 0

\* bool(sala and sala.strip())
eh_sala_valida(sala) == sala # <<>> /\ Strip(sala) # <<>>

(***************************************************************************)
(* Feed events                                                              *)
(***************************************************************************)

\* evento.find(tag): the first child element with that tag, or None
Tem(evento, tag) == Len(evento[tag]) > 0

\* evento.find(tag).text
Texto(evento, tag) == evento[tag][1]

Evento(sala, predio, turma, professor, inicio, termino, titulo) ==
  [sala |-> sala, predio |-> predio, turma |-> turma, professor |-> professor,
   horainicio |-> inicio, horatermino |-> termino, titulo |-> titulo]

S101 == <<"1", "0", "1">>
S102 == <<"1", "0", "2">>
PA == <<"A">>
PB == <<"B">>
CS == <<"C", "S">>
MA == <<"M", "A">>
Prof == <<"S", "a">>
H0900 == <<"0", "9", ":", "0", "0">>
H0947 == <<"0", "9", ":", "4", "7">>
H1000 == <<"1", "0", ":", "0", "0">>
H1030 == <<"1", "0", ":", "3", "0">>
H1100 == <<"1", "1", ":", "0", "0">>

\* dict.setdefault(key, value): a key already present keeps its value
Put_SeAusente(d, key, value) ==
  [x \in (DOMAIN d) \cup {key} |-> IF x \in DOMAIN d THEN d[x] ELSE value]

\* dict[key] = value on a dict held as a function
Put(d, key, value) ==
  [x \in (DOMAIN d) \cup {key} |-> IF x = key THEN value ELSE d[x]]

(***************************************************************************)
(* src/main.py: agrupar_horarios_30min                                      *)
(***************************************************************************)

\* mutant: the start is floored to the hour instead of the half hour
agrupar_horarios_60min(todos_horarios) ==
  LET horarios_inicio == {Split(horario, Sep)[1] : horario \in todos_horarios}
      Bloco(horario) ==
        LET minutos == converter_horario_para_minutos(horario)
            bloco_minutos == (minutos \div 60) * 60
        IN  FormatHM(bloco_minutos \div 60, bloco_minutos % 60)
  IN  SortedStr({Bloco(horario) : horario \in horarios_inicio})

agrupar_horarios_30min(todos_horarios) ==
  LET horarios_inicio == {Split(horario, Sep)[1] : horario \in todos_horarios}
      Bloco(horario) ==
        LET minutos == converter_horario_para_minutos(horario)
            bloco_minutos == (minutos \div 30) * 30
        IN  FormatHM(bloco_minutos \div 60, bloco_minutos % 60)
  IN  SortedStr({Bloco(horario) : horario \in horarios_inicio})

(***************************************************************************)
(* src/main.py: extrair_dados_xml, one iteration of its loop over eventos   *)
(***************************************************************************)

\* TRUE when the try block of the iteration reaches its last statement:
\* every .find(...).text succeeded and the room is not blank
EventoRegistrado(evento) ==
  /\ Tem(evento, "sala")
  /\ eh_sala_valida(Strip(Texto(evento, "sala")))
  /\ Tem(evento, "predio")
  /\ Tem(evento, "horainicio")
  /\ Tem(evento, "horatermino")
  /\ Tem(evento, "turma")

\* the registry is written as soon as room and building are read, before
\* the times and the course
ExtrairUm_RegistraAntes(evento, mapa, predios, todos) ==
  IF ~EventoRegistrado(evento)
  THEN [mapa |-> mapa,
        predios |-> IF /\ Tem(evento, "sala")
                       /\ eh_sala_valida(Strip(Texto(evento, "sala")))
                       /\ Tem(evento, "predio")
                    THEN Put(predios, Strip(Texto(evento, "sala")),
                             Strip(Texto(evento, "predio")))
                    ELSE predios,
        todos |-> todos]
  ELSE
    LET sala == Strip(Texto(evento, "sala"))
        hora_inicio == Strip(Texto(evento, "horainicio"))
        hora_termino == Strip(Texto(evento, "horatermino"))
        horario_completo == FormatIntervalo(hora_inicio, hora_termino)
        info == [predio |-> Strip(Texto(evento, "predio")),
                 curso |-> Strip(Texto(evento, "turma"))]
        Pos == {k \in 1..Len(mapa) : mapa[k].horario = horario_completo}
    IN  [mapa |->
           IF Pos = {}
           THEN Append(mapa, [horario |-> horario_completo,
                              salas |-> Put(<<>>, sala, info)])
           ELSE [k \in 1..Len(mapa) |->
                   IF k \in Pos
                   THEN [mapa[k] EXCEPT !.salas = Put(@, sala, info)]
                   ELSE mapa[k]],
         predios |-> Put(predios, sala, info.predio),
         todos |-> todos \cup {horario_completo}]

\* the three collections after the iteration for evento
ExtrairUm(evento, mapa, predios, todos) ==
  IF ~EventoRegistrado(evento)
  THEN [mapa |-> mapa, predios |-> predios, todos |-> todos]
  ELSE
    LET sala == Strip(Texto(evento, "sala"))
        predio == Strip(Texto(evento, "predio"))
        hora_inicio == Strip(Texto(evento, "horainicio"))
        hora_termino == Strip(Texto(evento, "horatermino"))
        curso == Strip(Texto(evento, "turma"))
        horario_completo == FormatIntervalo(hora_inicio, hora_termino)
        info == [predio |-> predio, curso |-> curso]
        Pos == {k \in 1..Len(mapa) : mapa[k].horario = horario_completo}
    IN  [mapa |->
           IF Pos = {}
           THEN Append(mapa, [horario |-> horario_completo,
                              salas |-> Put(<<>>, sala, info)])
           ELSE [k \in 1..Len(mapa) |->
                   IF k \in Pos
                   THEN [mapa[k] EXCEPT !.salas = Put(@, sala, info)]
                   ELSE mapa[k]],
         predios |-> Put(predios, sala, predio),
         todos |-> todos \cup {horario_completo}]

(***************************************************************************)
(* src/main.py: processar_disponibilidade                                   *)
(***************************************************************************)

\* mutant: the overlap test with non-strict inequalities
AulaNoBloco_Inclusivo(inicio_aula, fim_aula, minuto_bloco, minuto_fim) ==
  inicio_aula <= minuto_fim /\ fim_aula >= minuto_bloco

\* a class counts only when it lies inside the block
AulaNoBloco_Contida(inicio_aula, fim_aula, minuto_bloco, minuto_fim) ==
  inicio_aula >= minuto_bloco /\ fim_aula <= minuto_fim

\* the overlap test of line 286
AulaNoBloco(inicio_aula, fim_aula, minuto_bloco, minuto_fim) ==
  inicio_aula < minuto_fim /\ fim_aula > minuto_bloco

\* salas_ocupadas_neste_bloco after the first k entries of the dict: a later
\* entry overwrites the room's value
RECURSIVE OcupadasAte(_, _, _, _)
OcupadasAte(mapa, k, minuto_bloco, minuto_fim) ==
  IF k = 0 THEN <<>>
  ELSE
    LET antes == OcupadasAte(mapa, k - 1, minuto_bloco, minuto_fim)
        partes == Split(mapa[k].horario, Sep)
        inicio_aula == converter_horario_para_minutos(partes[1])
        fim_aula == converter_horario_para_minutos(partes[2])
        salas_dict == mapa[k].salas
    IN  IF AulaNoBloco(inicio_aula, fim_aula, minuto_bloco, minuto_fim)
        THEN [s \in (DOMAIN antes) \cup (DOMAIN salas_dict) |->
                IF s \in DOMAIN salas_dict THEN salas_dict[s] ELSE antes[s]]
        ELSE antes

\* the Sala records of one block, in the order of sorted(todas_salas_sistema);
\* ocupada tells which of the two lists the record is appended to
LinhasBloco(mapa, predios, horario_bloco) ==
  LET minuto_bloco == converter_horario_para_minutos(horario_bloco)
      minuto_fim == minuto_bloco + 30
      horario_formatado ==
        FormatIntervalo(horario_bloco, FormatHM(minuto_fim \div 60, minuto_fim % 60))
      ocupadas == OcupadasAte(mapa, Len(mapa), minuto_bloco, minuto_fim)
      salas == SortedStr(DOMAIN predios)
  IN  [k \in 1..Len(salas) |->
         IF salas[k] \in DOMAIN ocupadas
         THEN [ocupada |-> TRUE, horario |-> horario_formatado, sala |-> salas[k],
               predio |-> ocupadas[salas[k]].predio,
               curso |-> <<ocupadas[salas[k]].curso>>]
         ELSE [ocupada |-> FALSE, horario |-> horario_formatado, sala |-> salas[k],
               predio |-> predios[salas[k]], curso |-> <<>>]]

RECURSIVE LinhasAte(_, _, _, _)
LinhasAte(mapa, predios, blocos, k) ==
  IF k = 0 THEN <<>>
  ELSE LinhasAte(mapa, predios, blocos, k - 1) \o LinhasBloco(mapa, predios, blocos[k])

\* a Sala without the date labels; curso is <<>> for None
RegistroSala(linha) ==
  [horario |-> linha.horario, sala |-> linha.sala, predio |-> linha.predio,
   curso |-> linha.curso]

Registros(linhas) == [k \in 1..Len(linhas) |-> RegistroSala(linhas[k])]

EhOcupada(linha) == linha.ocupada
\* every room is appended to the available list
EhDisponivel_Todas(linha) == TRUE

EhDisponivel(linha) == ~linha.ocupada

processar_disponibilidade(mapa, predios, blocos) ==
  LET linhas == LinhasAte(mapa, predios, blocos, Len(blocos))
  IN  [salas_disponiveis |-> Registros(SelectSeq(linhas, EhDisponivel)),
       salas_ocupadas |-> Registros(SelectSeq(linhas, EhOcupada))]

(***************************************************************************)
(* Feeds of the grid specification                                          *)
(***************************************************************************)

MaxEventos == 2

Intervalos ==
  {<<H0900, H1030>>, <<H1000, H1100>>, <<H0947, H1000>>, <<H1030, H1100>>}

Lugares == {<<S101, PA>>, <<S102, PA>>, <<S101, PB>>}

EventosCompletos ==
  {Evento(<<l[1]>>, <<l[2]>>, <<t>>, <<Prof>>, <<h[1]>>, <<h[2]>>, <<>>) :
     l \in Lugares, t \in {CS, MA}, h \in Intervalos}

\* a blank room, an event without <turma>, and a room padded with blanks
EventosParciais ==
  {Evento(<<<<" ">>>>, <<PA>>, <<CS>>, <<Prof>>, <<H0900>>, <<H1030>>, <<>>),
   Evento(<<S102>>, <<PA>>, <<>>, <<Prof>>, <<H0900>>, <<H1030>>, <<>>),
   Evento(<<<<" ", "1", "0", "2", " ">>>>, <<PB>>, <<MA>>, <<Prof>>, <<H0947>>, <<H1000>>, <<>>)}

EventosGrade == EventosCompletos \cup EventosParciais

Feeds(E) == UNION {[1..n -> E] : n \in 0..MaxEventos}

ResultadoVazio == [salas_disponiveis |-> <<>>, salas_ocupadas |-> <<>>]

SemChamada == [op |-> "nenhuma"]

\* buscar_xml_com_retry has not returned
Pendente == [tipo |-> "pendente"]

\* b"": a body of zero bytes
CorpoVazio == [bytes |-> "vazio", eventos |-> <<>>]

\* no entry point runs: the functions are called on a feed already fetched
SemMain ==
  /\ programa = "nenhum"
  /\ servidor = CorpoVazio
  /\ max_tentativas = 0
  /\ tentativa = 0
  /\ erros = 0
  /\ retorno = Pendente
  /\ passos = <<>>

(***************************************************************************)
(* The grid run: extrair_dados_xml, then processar_disponibilidade          *)
(***************************************************************************)

Init ==
  /\ xml_content \in Feeds(EventosGrade)
  /\ pc = "extrair"
  /\ idx = 0
  /\ mapa_ocupacao_completo = <<>>
  /\ mapa_predios = <<>>
  /\ todos_horarios_originais = {}
  /\ horarios_agrupados = <<>>
  /\ resultado = ResultadoVazio
  /\ chamada = SemChamada
  /\ SemMain

\* one iteration of "for evento in eventos" (main.py 199-228)
ExtrairEvento ==
  /\ pc = "extrair"
  /\ idx < Len(xml_content)
  /\ LET r == ExtrairUm(xml_content[idx + 1], mapa_ocupacao_completo, mapa_predios,
                        todos_horarios_originais)
     IN  /\ mapa_ocupacao_completo' = r.mapa
         /\ mapa_predios' = r.predios
         /\ todos_horarios_originais' = r.todos
  /\ idx' = idx + 1
  /\ UNCHANGED <<xml_content, pc, horarios_agrupados, resultado, chamada>>
  /\ UNCHANGED vars_main

\* the end of extrair_dados_xml (main.py 230-236)
ExtrairFim ==
  /\ pc = "extrair"
  /\ idx = Len(xml_content)
  /\ horarios_agrupados' = agrupar_horarios_30min(todos_horarios_originais)
  /\ pc' = "processar"
  /\ UNCHANGED <<xml_content, idx, mapa_ocupacao_completo, mapa_predios,
                 todos_horarios_originais, resultado, chamada>>
  /\ UNCHANGED vars_main

\* processar_disponibilidade (main.py 239-325)
ProcessarDisponibilidade ==
  /\ pc = "processar"
  /\ resultado' = processar_disponibilidade(mapa_ocupacao_completo, mapa_predios,
                                            horarios_agrupados)
  /\ pc' = "fim"
  /\ UNCHANGED <<xml_content, idx, mapa_ocupacao_completo, mapa_predios,
                 todos_horarios_originais, horarios_agrupados, chamada>>
  /\ UNCHANGED vars_main

Next == ExtrairEvento \/ ExtrairFim \/ ProcessarDisponibilidade

Spec == Init /\ [][Next]_vars

(***************************************************************************)
(* The bookings of the feed, read from the events themselves                *)
(***************************************************************************)

\* the positions of the feed whose event carries a non-blank room, a
\* building, a course, a start and an end
Aulas == {k \in 1..Len(xml_content) : EventoRegistrado(xml_content[k])}

AulaSala(k) == Strip(Texto(xml_content[k], "sala"))
AulaCurso(k) == Strip(Texto(xml_content[k], "turma"))
AulaInicio(k) == converter_horario_para_minutos(Strip(Texto(xml_content[k], "horainicio")))
AulaFim(k) == converter_horario_para_minutos(Strip(Texto(xml_content[k], "horatermino")))

Floor30(minutos) == minutos - (minutos % 30)

HoraDe(minutos) == FormatHM(minutos \div 60, minutos % 60)

\* the label "HH:MM - HH:MM" of the block that starts at minute b
RotuloBloco(b) == FormatIntervalo(HoraDe(b), HoraDe(b + 30))

InicioDosBlocos == {converter_horario_para_minutos(horarios_agrupados[k]) :
                      k \in 1..Len(horarios_agrupados)}

Elementos(s) == {s[k] : k \in 1..Len(s)}

\* the courses recorded as occupying room r in the block that starts at b
CursosRegistrados(b, r) ==
  {x.curso[1] : x \in {y \in Elementos(resultado.salas_ocupadas) :
                         y.horario = RotuloBloco(b) /\ y.sala = r}}

EmitidaOcupada(b, r) ==
  \E x \in Elementos(resultado.salas_ocupadas) : x.horario = RotuloBloco(b) /\ x.sala = r

EmitidaLivre(b, r) ==
  \E x \in Elementos(resultado.salas_disponiveis) : x.horario = RotuloBloco(b) /\ x.sala = r

\* booking k intersects the block [b, b+30), both inequalities strict
Sobrepoe(k, b) == AulaInicio(k) < b + 30 /\ AulaFim(k) > b

(***************************************************************************)
(* Claims about the grid                                                    *)
(***************************************************************************)

\* C1: for every block [b, b+30) of the grid and every room r of the registry,
\* r is emitted as occupied iff some booking of r has start < b+30 and
\* end > b (both strict), and as free otherwise.
C1_OcupadaSseSobrepoe ==
  pc = "fim" =>
    \A b \in InicioDosBlocos : \A r \in DOMAIN mapa_predios :
      LET ocupa == \E k \in Aulas : AulaSala(k) = r /\ Sobrepoe(k, b)
      IN  /\ EmitidaOcupada(b, r) <=> ocupa
          /\ EmitidaLivre(b, r) <=> ~ocupa

\* C1 witness: a block in which one room is emitted free although a booking of
\* it ends exactly at the block start, and another room is emitted occupied.
C1_Witness ==
  /\ pc = "fim"
  /\ \E b \in InicioDosBlocos : \E r, q \in DOMAIN mapa_predios :
       /\ \E k \in Aulas : AulaSala(k) = r /\ AulaFim(k) = b
       /\ EmitidaLivre(b, r)
       /\ EmitidaOcupada(b, q)

\* C2: two bookings of the same room that overlap in time are both recorded
\* as occupying the room in at least one block of the grid.
C2_AmbasRegistradas ==
  pc = "fim" =>
    \A i, j \in Aulas :
      (/\ i # j
       /\ AulaSala(i) = AulaSala(j)
       /\ AulaInicio(i) < AulaFim(j)
       /\ AulaInicio(j) < AulaFim(i))
      => \E b \in InicioDosBlocos :
           /\ AulaCurso(i) \in CursosRegistrados(b, AulaSala(i))
           /\ AulaCurso(j) \in CursosRegistrados(b, AulaSala(j))

\* C3: in every block, the courses recorded for a room are all the courses
\* with a booking of that room overlapping the block.
C3_TodosOsOcupantes ==
  pc = "fim" =>
    \A b \in InicioDosBlocos : \A r \in DOMAIN mapa_predios :
      CursosRegistrados(b, r) =
        {AulaCurso(k) : k \in {n \in Aulas : AulaSala(n) = r /\ Sobrepoe(n, b)}}

\* C4: with at least one booking, the block list holds every 30-minute block
\* from the floor of the earliest start up to a block covering the latest end.
C4_BlocosSemLacuna ==
  (pc = "fim" /\ Aulas # {}) =>
    LET primeiro == Floor30(CHOOSE m \in {AulaInicio(k) : k \in Aulas} :
                              \A k \in Aulas : m <= AulaInicio(k))
        ultimo == CHOOSE m \in {AulaFim(k) : k \in Aulas} :
                    \A k \in Aulas : m >= AulaFim(k)
    IN  \A b \in primeiro..ultimo :
          (b % 30 = 0 /\ b < ultimo) => b \in InicioDosBlocos

\* C5: the block list is the ascending list of the floors, to the 30-minute
\* grid, of the booking starts: each block start is a multiple of 30 and the
\* floor of some booking start, every floored start is listed, and each block
\* is labelled [start, start+30).
C5_BlocosSaoPisos ==
  pc = "fim" =>
    /\ \A k \in 1..Len(horarios_agrupados) :
         LET b == converter_horario_para_minutos(horarios_agrupados[k])
         IN  /\ b % 30 = 0
             /\ horarios_agrupados[k] = HoraDe(b)
             /\ \E n \in Aulas : Floor30(AulaInicio(n)) = b
             /\ k > 1 => converter_horario_para_minutos(horarios_agrupados[k - 1]) < b
    /\ \A n \in Aulas : Floor30(AulaInicio(n)) \in InicioDosBlocos
    /\ \A x \in Elementos(resultado.salas_ocupadas) \cup Elementos(resultado.salas_disponiveis) :
         \E b \in InicioDosBlocos : x.horario = RotuloBloco(b)

\* C5 witness: a booking starting at 09:47 gives the block 09:30 - 10:00.
C5_Witness ==
  /\ pc = "fim"
  /\ \E n \in Aulas : AulaInicio(n) = 587
  /\ \E k \in 1..Len(horarios_agrupados) : horarios_agrupados[k] = <<"0", "9", ":", "3", "0">>
  /\ \E x \in Elementos(resultado.salas_ocupadas) : x.horario = RotuloBloco(570)

(***************************************************************************)
(* src/buscar_curso.py: buscar_horarios_sala_referencia                     *)
(***************************************************************************)

\* mutant: the courses are compared without upper()
CursoExcluido_Exato(turma, curso_excluir) == turma = curso_excluir

\* the negation of turma.upper() != curso_excluir.upper() (line 152)
CursoExcluido(turma, curso_excluir) == Upper(turma) = Upper(curso_excluir)

\* mutant: the key is the course name alone
ChaveCurso_SoTurma(turma, titulo_text) == turma

\* chave_curso = f"{turma} - {titulo_text}" if titulo_text else turma (line 161)
ChaveCurso(turma, titulo_text) ==
  IF titulo_text # <<>> THEN FormatIntervalo(turma, titulo_text) ELSE turma

\* titulo.text.strip() if titulo else "" (lines 157-158)
TituloTexto(evento) ==
  IF Tem(evento, "titulo") THEN Strip(Texto(evento, "titulo")) ELSE <<>>

\* one iteration of the loop (lines 146-168) on the dict d
HorariosUm(evento, sala, predio, curso_excluir, d) ==
  IF ~(Tem(evento, "sala") /\ Tem(evento, "predio") /\ Tem(evento, "turma")) THEN d
  ELSE
    LET sala_evento == Strip(Texto(evento, "sala"))
        predio_evento == Strip(Texto(evento, "predio"))
        turma == Strip(Texto(evento, "turma"))
    IN  IF sala_evento = sala /\ predio_evento = predio
           /\ ~CursoExcluido(turma, curso_excluir)
        THEN IF ~(Tem(evento, "horainicio") /\ Tem(evento, "horatermino")) THEN d
             ELSE
               LET hora_inicio == Strip(Texto(evento, "horainicio"))
                   hora_termino == Strip(Texto(evento, "horatermino"))
                   chave_curso == ChaveCurso(turma, TituloTexto(evento))
                   antes == IF chave_curso \in DOMAIN d THEN d[chave_curso] ELSE {}
               IN  Put(d, chave_curso, antes \cup {<<hora_inicio, hora_termino>>})
        ELSE d

RECURSIVE HorariosAte(_, _, _, _, _)
HorariosAte(xml, k, sala, predio, curso_excluir) ==
  IF k = 0 THEN <<>>
  ELSE HorariosUm(xml[k], sala, predio, curso_excluir,
                  HorariosAte(xml, k - 1, sala, predio, curso_excluir))

buscar_horarios_sala_referencia(xml, sala, predio, curso_excluir) ==
  HorariosAte(xml, Len(xml), sala, predio, curso_excluir)

(***************************************************************************)
(* src/buscar_curso.py: buscar_salas_livres                                 *)
(***************************************************************************)

\* salas_predio after the first k events (lines 190-204): a dict sala -> set
\* of (inicio, termino), held in insertion order
RECURSIVE SalasPredioAte(_, _, _)
SalasPredioAte(xml, k, predio) ==
  IF k = 0 THEN <<>>
  ELSE
    LET d == SalasPredioAte(xml, k - 1, predio)
        evento == xml[k]
    IN  IF ~(Tem(evento, "sala") /\ Tem(evento, "predio")) THEN d
        ELSE IF Strip(Texto(evento, "predio")) # predio THEN d
        ELSE IF ~(Tem(evento, "horainicio") /\ Tem(evento, "horatermino")) THEN d
        ELSE
          LET sala_evento == Strip(Texto(evento, "sala"))
              h == <<Strip(Texto(evento, "horainicio")), Strip(Texto(evento, "horatermino"))>>
              Pos == {n \in 1..Len(d) : d[n].sala = sala_evento}
          IN  IF Pos = {}
              THEN Append(d, [sala |-> sala_evento, horarios |-> {h}])
              ELSE [n \in 1..Len(d) |->
                      IF n \in Pos THEN [d[n] EXCEPT !.horarios = @ \cup {h}] ELSE d[n]]

\* the rooms of every building where the code keeps those of predio
SalasPredio_QualquerPredio(xml, predio) ==
  SalasPredioAte(xml, Len(xml), PA) \o SalasPredioAte(xml, Len(xml), PB)

SalasPredio(xml, predio) == SalasPredioAte(xml, Len(xml), predio)

\* a room counts as free when it is free in some blocked interval
SalaLivre_EmAlgum(horarios_ocupados, bloqueados) ==
  \E k \in 1..Len(bloqueados) : bloqueados[k] \notin horarios_ocupados

\* mutant: without the break, the flag is overwritten by each blocked interval
SalaLivre_SoUltimo(horarios_ocupados, bloqueados) ==
  bloqueados = <<>> \/ bloqueados[Len(bloqueados)] \notin horarios_ocupados

\* sala_livre after the loop of lines 210-214; bloqueados lists the set
\* horarios_bloqueados in the order the interpreter iterates it
SalaLivre(horarios_ocupados, bloqueados) ==
  \A k \in 1..Len(bloqueados) : bloqueados[k] \notin horarios_ocupados

RECURSIVE Concat(_, _)
Concat(listas, k) == IF k = 0 THEN <<>> ELSE Concat(listas, k - 1) \o listas[k]

buscar_salas_livres(xml, predio, bloqueados) ==
  LET salas_predio == SalasPredio(xml, predio)
      Entradas(e) ==
        IF SalaLivre(e.horarios, bloqueados)
        THEN [k \in 1..Len(bloqueados) |->
                [sala |-> e.sala, predio |-> predio,
                 horario_inicio |-> bloqueados[k][1],
                 horario_termino |-> bloqueados[k][2]]]
        ELSE <<>>
  IN  Concat([n \in 1..Len(salas_predio) |-> Entradas(salas_predio[n])], Len(salas_predio))

(***************************************************************************)
(* src/buscar_curso.py: sugerir_salas_alternativas                          *)
(***************************************************************************)

\* salas_livres of lines 334-342 for one blocked interval
SalasLivresNoHorario(xml, predio, horario, salas_excluir) ==
  LET salas_predio == SalasPredio(xml, predio)
      todas_salas == {salas_predio[n].sala : n \in 1..Len(salas_predio)}
      salas_ocupadas_neste_horario ==
        {salas_predio[n].sala : n \in {m \in 1..Len(salas_predio) :
                                          horario \in salas_predio[m].horarios}}
  IN  SortedStr((todas_salas \ salas_ocupadas_neste_horario) \ salas_excluir)

\* the whole list where the code takes lista[:n]
Prefixo_Inteiro(lista, n) == lista

\* lista[:n]
Prefixo(lista, n) == SubSeq(lista, 1, IF n < Len(lista) THEN n ELSE Len(lista))

\* the suggestions written to the text after the first k intervals (lines
\* 350-356): one entry per "SUGESTAO" paragraph, with the rooms of its lines
RECURSIVE SugestoesAte(_, _, _, _, _, _)
SugestoesAte(xml, predio, bloqueados, salas_excluir, max_sugestoes, k) ==
  IF k = 0 THEN <<>>
  ELSE
    LET antes == SugestoesAte(xml, predio, bloqueados, salas_excluir, max_sugestoes, k - 1)
        salas_livres == SalasLivresNoHorario(xml, predio, bloqueados[k], salas_excluir)
    IN  IF salas_livres # <<>> /\ Len(antes) < max_sugestoes
        THEN Append(antes, [h_inicio |-> bloqueados[k][1], h_termino |-> bloqueados[k][2],
                            salas |-> Prefixo(salas_livres, 2)])
        ELSE antes

sugerir_salas_alternativas(xml, predio, bloqueados, salas_excluir, max_sugestoes) ==
  SugestoesAte(xml, predio, bloqueados, salas_excluir, max_sugestoes, Len(bloqueados))

(***************************************************************************)
(* Resolver calls on a fetched feed                                         *)
(***************************************************************************)

T1 == <<"T">>
Cs == <<"c", "s">>

IntervalosConsulta == {<<H0900, H1030>>, <<H1000, H1100>>, <<H1030, H1100>>}

\* course and optional <titulo>
TurmasConsulta == {<<CS, <<>>>>, <<MA, <<>>>>, <<MA, <<T1>>>>}

\* an event without <horainicio> and an event without <sala>
EventosParciaisConsulta ==
  {Evento(<<S102>>, <<PA>>, <<MA>>, <<Prof>>, <<>>, <<H1100>>, <<>>),
   Evento(<<>>, <<PA>>, <<CS>>, <<Prof>>, <<H1000>>, <<H1100>>, <<>>)}

EventosConsulta ==
  {Evento(<<l[1]>>, <<l[2]>>, <<t[1]>>, <<Prof>>, <<h[1]>>, <<h[2]>>, t[2]) :
     l \in Lugares, t \in TurmasConsulta, h \in IntervalosConsulta}
  \cup EventosParciaisConsulta

ArgSalas == {S101, S102}
ArgPredios == {PA, PB}
ArgCursos == {CS, Cs, MA}

\* the orders in which a set horarios_bloqueados of at most two intervals
\* can be iterated
ArgBloqueados ==
  LET a == <<H1000, H1100>>
      b == <<H0900, H1030>>
  IN  {<<>>, <<a>>, <<b>>, <<a, b>>, <<b, a>>}

ArgExcluir == {{}, {S101}}
ArgMaxSugestoes == {1, 3}

InitConsulta ==
  /\ xml_content \in Feeds(EventosConsulta)
  /\ pc = "pronto"
  /\ idx = 0
  /\ mapa_ocupacao_completo = <<>>
  /\ mapa_predios = <<>>
  /\ todos_horarios_originais = {}
  /\ horarios_agrupados = <<>>
  /\ resultado = ResultadoVazio
  /\ chamada = SemChamada
  /\ SemMain

BuscarHorariosSalaReferencia ==
  /\ pc = "pronto"
  /\ \E sala \in ArgSalas, predio \in ArgPredios, curso_excluir \in ArgCursos :
       chamada' = [op |-> "buscar_horarios_sala_referencia",
                   sala |-> sala, predio |-> predio, curso_excluir |-> curso_excluir,
                   ret |-> buscar_horarios_sala_referencia(xml_content, sala, predio,
                                                           curso_excluir)]
  /\ pc' = "retornou"
  /\ UNCHANGED <<xml_content, idx, mapa_ocupacao_completo, mapa_predios,
                 todos_horarios_originais, horarios_agrupados, resultado>>
  /\ UNCHANGED vars_main

BuscarSalasLivres ==
  /\ pc = "pronto"
  /\ \E predio \in ArgPredios, bloqueados \in ArgBloqueados :
       chamada' = [op |-> "buscar_salas_livres",
                   predio |-> predio, horarios_bloqueados |-> bloqueados,
                   ret |-> buscar_salas_livres(xml_content, predio, bloqueados)]
  /\ pc' = "retornou"
  /\ UNCHANGED <<xml_content, idx, mapa_ocupacao_completo, mapa_predios,
                 todos_horarios_originais, horarios_agrupados, resultado>>
  /\ UNCHANGED vars_main

SugerirSalasAlternativas ==
  /\ pc = "pronto"
  /\ \E predio \in ArgPredios, bloqueados \in ArgBloqueados,
        salas_excluir \in ArgExcluir, max_sugestoes \in ArgMaxSugestoes :
       chamada' = [op |-> "sugerir_salas_alternativas",
                   predio |-> predio, horarios_bloqueados |-> bloqueados,
                   salas_excluir |-> salas_excluir, max_sugestoes |-> max_sugestoes,
                   ret |-> sugerir_salas_alternativas(xml_content, predio, bloqueados,
                                                      salas_excluir, max_sugestoes)]
  /\ pc' = "retornou"
  /\ UNCHANGED <<xml_content, idx, mapa_ocupacao_completo, mapa_predios,
                 todos_horarios_originais, horarios_agrupados, resultado>>
  /\ UNCHANGED vars_main

\* the caller takes the result; the next call starts from the same feed
Retornar ==
  /\ pc = "retornou"
  /\ pc' = "pronto"
  /\ chamada' = SemChamada
  /\ UNCHANGED <<xml_content, idx, mapa_ocupacao_completo, mapa_predios,
                 todos_horarios_originais, horarios_agrupados, resultado>>
  /\ UNCHANGED vars_main

NextConsulta ==
  \/ BuscarHorariosSalaReferencia
  \/ BuscarSalasLivres
  \/ SugerirSalasAlternativas
  \/ Retornar

SpecConsulta == InitConsulta /\ [][NextConsulta]_vars

(***************************************************************************)
(* Claims about the resolver                                                *)
(***************************************************************************)

AulaPredio(k) == Strip(Texto(xml_content[k], "predio"))

\* the positions of the feed whose event carries a room, a building, a start
\* and an end: the bookings the resolver's room maps are built from
AulasComHorario ==
  {k \in 1..Len(xml_content) :
     /\ Tem(xml_content[k], "sala") /\ Tem(xml_content[k], "predio")
     /\ Tem(xml_content[k], "horainicio") /\ Tem(xml_content[k], "horatermino")}

\* the bookings of a room of a building that also carry a course
AulasDaSala(sala, predio) ==
  {k \in AulasComHorario :
     /\ Tem(xml_content[k], "turma")
     /\ AulaSala(k) = sala
     /\ AulaPredio(k) = predio}

AulaIntervalo(k) ==
  <<Strip(Texto(xml_content[k], "horainicio")), Strip(Texto(xml_content[k], "horatermino"))>>

TemTitulo(k) ==
  Tem(xml_content[k], "titulo") /\ Strip(Texto(xml_content[k], "titulo")) # <<>>

\* the course name, followed by " - " and the title when the event has one
AulaRotulo(k) ==
  IF TemTitulo(k)
  THEN AulaCurso(k) \o <<" ", "-", " ">> \o Strip(Texto(xml_content[k], "titulo"))
  ELSE AulaCurso(k)

\* booking k intersects the interval (inicio, termino) of HH:MM strings
SobrepoeIntervalo(k, h) ==
  /\ AulaInicio(k) < converter_horario_para_minutos(h[2])
  /\ AulaFim(k) > converter_horario_para_minutos(h[1])

EhHorarios == chamada.op = "buscar_horarios_sala_referencia"
EhLivres == chamada.op = "buscar_salas_livres"
EhSugerir == chamada.op = "sugerir_salas_alternativas"

\* the bookings of the call's room and building whose course is not the
\* excluded one, letter case ignored
C6_Outras ==
  {k \in AulasDaSala(chamada.sala, chamada.predio) :
     Upper(AulaCurso(k)) # Upper(chamada.curso_excluir)}

\* C6 as stated: the keys of the result are exactly the names of the other
\* courses booked in the room, each mapped to the set of its (start, end).
C6_ChavesSaoCursos ==
  EhHorarios =>
    /\ DOMAIN chamada.ret = {AulaCurso(k) : k \in C6_Outras}
    /\ \A c \in DOMAIN chamada.ret :
         chamada.ret[c] = {AulaIntervalo(k) : k \in {n \in C6_Outras : AulaCurso(n) = c}}

\* C6 amended: the keys of the result are exactly the labels of the other
\* courses' bookings in the room (the course name, or "course - title" when
\* the event has a non-empty title), each mapped to the set of the distinct
\* (start, end) of the bookings with that label.
C6_ChavesSaoRotulos ==
  EhHorarios =>
    /\ DOMAIN chamada.ret = {AulaRotulo(k) : k \in C6_Outras}
    /\ \A c \in DOMAIN chamada.ret :
         chamada.ret[c] = {AulaIntervalo(k) : k \in {n \in C6_Outras : AulaRotulo(n) = c}}

\* C6 witness: CS excluded from room 101 of building A, where MA is booked
\* with a title from 10:00 to 11:00 and CS is booked too.
C6_Witness ==
  /\ EhHorarios
  /\ chamada.sala = S101 /\ chamada.predio = PA /\ chamada.curso_excluir = CS
  /\ \E k \in AulasDaSala(S101, PA) : AulaCurso(k) = CS
  /\ \E k \in AulasDaSala(S101, PA) : AulaCurso(k) = MA /\ TemTitulo(k)
  /\ DOMAIN chamada.ret = {<<"M", "A", " ", "-", " ", "T">>}
  /\ chamada.ret[<<"M", "A", " ", "-", " ", "T">>] = {<<H1000, H1100>>}

\* C7: a call whose excluded course differs only in letter case returns the
\* same result, and no booking of a course equal to the excluded one up to
\* case contributes a key or an interval to the result.
C7_ExclusaoSemCaixa ==
  EhHorarios =>
    /\ \A outro \in ArgCursos :
         Upper(outro) = Upper(chamada.curso_excluir) =>
           buscar_horarios_sala_referencia(xml_content, chamada.sala, chamada.predio, outro)
             = chamada.ret
    /\ \A k \in AulasDaSala(chamada.sala, chamada.predio) :
         Upper(AulaCurso(k)) = Upper(chamada.curso_excluir) =>
           \/ AulaRotulo(k) \notin DOMAIN chamada.ret
           \/ \E n \in C6_Outras :
                AulaRotulo(n) = AulaRotulo(k) /\ AulaIntervalo(n) = AulaIntervalo(k)

\* C7 witness: "cs" is excluded, the room holds a booking of "CS" and one of
\* another course, and only the other course is in the result.
C7_Witness ==
  /\ EhHorarios
  /\ chamada.curso_excluir = Cs
  /\ \E k \in AulasDaSala(chamada.sala, chamada.predio) : AulaCurso(k) = CS
  /\ \E k \in AulasDaSala(chamada.sala, chamada.predio) : AulaCurso(k) = MA
  /\ chamada.ret # <<>>
  /\ \A c \in DOMAIN chamada.ret : c # CS

SalasRetornadas(ret) == {ret[n].sala : n \in 1..Len(ret)}

\* C8: a room is returned only if none of its bookings in the building
\* overlaps any blocked interval (start < blocked end and end > blocked start).
C8_LivreSemSobreposicao ==
  EhLivres =>
    \A r \in SalasRetornadas(chamada.ret) :
      \A k \in AulasComHorario :
        (AulaSala(k) = r /\ AulaPredio(k) = chamada.predio) =>
          \A h \in Elementos(chamada.horarios_bloqueados) : ~SobrepoeIntervalo(k, h)

\* C9 as stated: for blocked sets S and T with S a subset of T, S possibly
\* empty, the rooms returned for T are among the rooms returned for S.
C9_MonotoniaComVazio ==
  EhLivres =>
    \A T \in ArgBloqueados :
      Elementos(chamada.horarios_bloqueados) \subseteq Elementos(T) =>
        SalasRetornadas(buscar_salas_livres(xml_content, chamada.predio, T))
          \subseteq SalasRetornadas(chamada.ret)

\* C9 amended: for blocked sets S and T with S non-empty and S a subset of T,
\* the rooms returned for T are among the rooms returned for S; for the empty
\* blocked set nothing is returned.
C9_Monotonia ==
  EhLivres =>
    /\ chamada.horarios_bloqueados = <<>> => chamada.ret = <<>>
    /\ chamada.horarios_bloqueados # <<>> =>
         \A T \in ArgBloqueados :
           Elementos(chamada.horarios_bloqueados) \subseteq Elementos(T) =>
             SalasRetornadas(buscar_salas_livres(xml_content, chamada.predio, T))
               \subseteq SalasRetornadas(chamada.ret)

\* C9 witness: adding a blocked interval removes a room and keeps another.
C9_Witness ==
  /\ EhLivres
  /\ chamada.horarios_bloqueados # <<>>
  /\ \E T \in ArgBloqueados :
       LET maior == SalasRetornadas(buscar_salas_livres(xml_content, chamada.predio, T))
       IN  /\ Elementos(chamada.horarios_bloqueados) \subseteq Elementos(T)
           /\ maior # {}
           /\ maior # SalasRetornadas(chamada.ret)
           /\ maior \subseteq SalasRetornadas(chamada.ret)

\* C10: a room suggested for a blocked interval has no booking in the
\* building that overlaps that interval.
C10_SugeridaSemSobreposicao ==
  EhSugerir =>
    \A n \in 1..Len(chamada.ret) :
      \A r \in Elementos(chamada.ret[n].salas) :
        \A k \in AulasComHorario :
          (AulaSala(k) = r /\ AulaPredio(k) = chamada.predio) =>
            ~SobrepoeIntervalo(k, <<chamada.ret[n].h_inicio, chamada.ret[n].h_termino>>)

(***************************************************************************)
(* Suggestions in a building with three rooms                              *)
(***************************************************************************)

S103 == <<"1", "0", "3">>

MaxEventosSugerir == 3

\* three rooms in building A at two intervals a caller may block and at one
\* it never blocks, and one room of building B
EventosSugerir ==
  {Evento(<<sala>>, <<PA>>, <<CS>>, <<Prof>>, <<h[1]>>, <<h[2]>>, <<>>) :
     sala \in {S101, S102, S103}, h \in IntervalosConsulta}
  \cup {Evento(<<S101>>, <<PB>>, <<MA>>, <<Prof>>, <<H1000>>, <<H1100>>, <<>>)}

InitSugerir ==
  /\ xml_content \in UNION {[1..n -> EventosSugerir] : n \in 0..MaxEventosSugerir}
  /\ pc = "pronto"
  /\ idx = 0
  /\ mapa_ocupacao_completo = <<>>
  /\ mapa_predios = <<>>
  /\ todos_horarios_originais = {}
  /\ horarios_agrupados = <<>>
  /\ resultado = ResultadoVazio
  /\ chamada = SemChamada
  /\ SemMain

NextSugerir ==
  \/ SugerirSalasAlternativas
  \/ Retornar

SpecSugerir == InitSugerir /\ [][NextSugerir]_vars

\* C11: the text of sugerir_salas_alternativas has at most max_sugestoes
\* paragraphs, each for a different blocked interval, and a paragraph lists
\* at most 2 rooms, in ascending order of identifier, none of them in
\* salas_excluir.
C11_SugestoesLimitadas ==
  EhSugerir =>
    /\ Len(chamada.ret) <= chamada.max_sugestoes
    /\ \A n \in 1..Len(chamada.ret) :
         LET salas == chamada.ret[n].salas
         IN  /\ Len(salas) <= 2
             /\ \A i \in 1..Len(salas), j \in 1..Len(salas) :
                  i < j => StrLess(salas[i], salas[j])
             /\ Elementos(salas) \cap chamada.salas_excluir = {}
             /\ <<chamada.ret[n].h_inicio, chamada.ret[n].h_termino>>
                  \in Elementos(chamada.horarios_bloqueados)
             /\ \A m \in 1..Len(chamada.ret) :
                  m # n => <<chamada.ret[m].h_inicio, chamada.ret[m].h_termino>>
                             # <<chamada.ret[n].h_inicio, chamada.ret[n].h_termino>>

\* two blocked intervals have free rooms and one paragraph is written; three
\* rooms are free at its interval and two are listed
C11_Witness ==
  /\ EhSugerir
  /\ chamada.max_sugestoes = 1
  /\ Len(chamada.ret) = 1
  /\ Len(chamada.horarios_bloqueados) = 2
  /\ \A k \in 1..2 :
       Len(SalasLivresNoHorario(xml_content, chamada.predio,
                                chamada.horarios_bloqueados[k],
                                chamada.salas_excluir)) = 3
  /\ chamada.ret[1].salas = <<S101, S102>>

(***************************************************************************)
(* src/buscar_curso.py: the lists of AulaCurso                              *)
(***************************************************************************)

\* the AulaCurso built from an event that carries the six texts
AulaObj(evento) ==
  [curso |-> Strip(Texto(evento, "turma")),
   sala |-> Strip(Texto(evento, "sala")),
   predio |-> Strip(Texto(evento, "predio")),
   professor |-> Strip(Texto(evento, "professor")),
   horario_inicio |-> Strip(Texto(evento, "horainicio")),
   horario_termino |-> Strip(Texto(evento, "horatermino")),
   aula |-> TituloTexto(evento)]

\* every .find(tag).text of the tags succeeds
TemTodos(evento, tags) == \A tag \in tags : Tem(evento, tag)

\* an AulaCurso list that keeps one entry per key (curso, sala, predio,
\* horario_inicio, horario_termino) where the code appends every entry
AppendAula_SemRepetir(lista, aula) ==
  IF \E n \in 1..Len(lista) :
       /\ lista[n].curso = aula.curso /\ lista[n].sala = aula.sala
       /\ lista[n].predio = aula.predio
       /\ lista[n].horario_inicio = aula.horario_inicio
       /\ lista[n].horario_termino = aula.horario_termino
  THEN lista
  ELSE Append(lista, aula)

\* lista.append(aula_obj)
AppendAula(lista, aula) == Append(lista, aula)

\* todas_aulas after the first k events
RECURSIVE TodasAulasAte(_, _)
TodasAulasAte(xml, k) ==
  IF k = 0 THEN <<>>
  ELSE
    LET antes == TodasAulasAte(xml, k - 1)
        evento == xml[k]
    IN  IF TemTodos(evento, {"turma", "sala", "predio", "professor",
                             "horainicio", "horatermino"})
        THEN AppendAula(antes, AulaObj(evento))
        ELSE antes

buscar_todas_aulas_do_dia(xml) == TodasAulasAte(xml, Len(xml))

\* aulas_sala after the first k events
RECURSIVE AulasSalaAte(_, _, _, _)
AulasSalaAte(xml, k, sala, predio) ==
  IF k = 0 THEN <<>>
  ELSE
    LET antes == AulasSalaAte(xml, k - 1, sala, predio)
        evento == xml[k]
    IN  IF ~TemTodos(evento, {"sala", "predio"}) THEN antes
        ELSE IF ~(Strip(Texto(evento, "sala")) = sala
                  /\ Strip(Texto(evento, "predio")) = predio) THEN antes
        ELSE IF ~TemTodos(evento, {"turma", "professor", "horainicio", "horatermino"})
        THEN antes
        ELSE AppendAula(antes, AulaObj(evento))

buscar_todas_aulas_sala(xml, sala, predio) == AulasSalaAte(xml, Len(xml), sala, predio)

\* aulas_encontradas after the first k events
RECURSIVE AulasCursoAte(_, _, _)
AulasCursoAte(xml, k, curso_buscado) ==
  IF k = 0 THEN <<>>
  ELSE
    LET antes == AulasCursoAte(xml, k - 1, curso_buscado)
        evento == xml[k]
    IN  IF ~Tem(evento, "turma") THEN antes
        ELSE IF Upper(Strip(Texto(evento, "turma"))) # Upper(curso_buscado) THEN antes
        ELSE IF ~TemTodos(evento, {"sala", "predio", "professor",
                                   "horainicio", "horatermino"})
        THEN antes
        ELSE AppendAula(antes, AulaObj(evento))

buscar_curso_no_xml(xml, curso_buscado) == AulasCursoAte(xml, Len(xml), curso_buscado)

(***************************************************************************)
(* src/main.py: extrair_dados_xml as one call                               *)
(***************************************************************************)

\* the three collections after the first k iterations of the loop
RECURSIVE ExtrairAte(_, _)
ExtrairAte(xml, k) ==
  IF k = 0 THEN [mapa |-> <<>>, predios |-> <<>>, todos |-> {}]
  ELSE LET antes == ExtrairAte(xml, k - 1)
       IN  ExtrairUm(xml[k], antes.mapa, antes.predios, antes.todos)

\* (mapa_ocupacao_completo, horarios_agrupados, mapa_predios)
extrair_dados_xml(xml) ==
  LET fim == ExtrairAte(xml, Len(xml))
  IN  [mapa_ocupacao_completo |-> fim.mapa,
       horarios_agrupados |-> agrupar_horarios_30min(fim.todos),
       mapa_predios |-> fim.predios]

(***************************************************************************)
(* The grid and the queries on one feed with partial and degenerate records *)
(***************************************************************************)

RegistroBase == Evento(<<S102>>, <<PB>>, <<MA>>, <<Prof>>, <<H1000>>, <<H1100>>, <<>>)

Campos == {"sala", "predio", "turma", "professor", "horainicio", "horatermino"}

\* the record without the element tag
SemCampo(tag) == [RegistroBase EXCEPT ![tag] = <<>>]

\* records that carry every element and end after they start
RegistrosCompletos ==
  {Evento(<<S101>>, <<PA>>, <<CS>>, <<Prof>>, <<H1000>>, <<H1100>>, <<>>),
   Evento(<<S102>>, <<PA>>, <<MA>>, <<Prof>>, <<H0900>>, <<H1030>>, <<>>),
   RegistroBase}

\* a record that ends before it starts and one of zero duration
RegistrosDegenerados ==
  {Evento(<<S102>>, <<PB>>, <<CS>>, <<Prof>>, <<H1030>>, <<H1000>>, <<>>),
   Evento(<<S102>>, <<PB>>, <<CS>>, <<Prof>>, <<H0947>>, <<H0947>>, <<>>)}

EventosRegistros ==
  RegistrosCompletos \cup {SemCampo(tag) : tag \in Campos} \cup RegistrosDegenerados

InitAnalise ==
  /\ xml_content \in Feeds(EventosRegistros)
  /\ pc = "extrair"
  /\ idx = 0
  /\ mapa_ocupacao_completo = <<>>
  /\ mapa_predios = <<>>
  /\ todos_horarios_originais = {}
  /\ horarios_agrupados = <<>>
  /\ resultado = ResultadoVazio
  /\ chamada = SemChamada
  /\ SemMain

\* processar_disponibilidade empties the occupancy map it is given
ProcessarDeNovo_Consome ==
  /\ pc \in {"fim", "pronto"}
  /\ resultado' = processar_disponibilidade(mapa_ocupacao_completo, mapa_predios,
                                            horarios_agrupados)
  /\ mapa_ocupacao_completo' = <<>>
  /\ UNCHANGED <<xml_content, pc, idx, mapa_predios,
                 todos_horarios_originais, horarios_agrupados, chamada>>
  /\ UNCHANGED vars_main

\* a further call of processar_disponibilidade on the collections of the run
ProcessarDeNovo ==
  /\ pc \in {"fim", "pronto"}
  /\ resultado' = processar_disponibilidade(mapa_ocupacao_completo, mapa_predios,
                                            horarios_agrupados)
  /\ UNCHANGED <<xml_content, pc, idx, mapa_ocupacao_completo, mapa_predios,
                 todos_horarios_originais, horarios_agrupados, chamada>>
  /\ UNCHANGED vars_main

\* the grid is built; the functions of buscar_curso.py are called on the feed
IniciarConsultas ==
  /\ pc = "fim"
  /\ pc' = "pronto"
  /\ UNCHANGED <<xml_content, idx, mapa_ocupacao_completo, mapa_predios,
                 todos_horarios_originais, horarios_agrupados, resultado, chamada>>
  /\ UNCHANGED vars_main

BuscarTodasAulasDoDia ==
  /\ pc = "pronto"
  /\ chamada' = [op |-> "buscar_todas_aulas_do_dia",
                 ret |-> buscar_todas_aulas_do_dia(xml_content)]
  /\ pc' = "retornou"
  /\ UNCHANGED <<xml_content, idx, mapa_ocupacao_completo, mapa_predios,
                 todos_horarios_originais, horarios_agrupados, resultado>>
  /\ UNCHANGED vars_main

BuscarTodasAulasSala ==
  /\ pc = "pronto"
  /\ \E sala \in ArgSalas, predio \in ArgPredios :
       chamada' = [op |-> "buscar_todas_aulas_sala", sala |-> sala, predio |-> predio,
                   ret |-> buscar_todas_aulas_sala(xml_content, sala, predio)]
  /\ pc' = "retornou"
  /\ UNCHANGED <<xml_content, idx, mapa_ocupacao_completo, mapa_predios,
                 todos_horarios_originais, horarios_agrupados, resultado>>
  /\ UNCHANGED vars_main

BuscarCursoNoXml ==
  /\ pc = "pronto"
  /\ \E curso_buscado \in ArgCursos :
       chamada' = [op |-> "buscar_curso_no_xml", curso_buscado |-> curso_buscado,
                   ret |-> buscar_curso_no_xml(xml_content, curso_buscado)]
  /\ pc' = "retornou"
  /\ UNCHANGED <<xml_content, idx, mapa_ocupacao_completo, mapa_predios,
                 todos_horarios_originais, horarios_agrupados, resultado>>
  /\ UNCHANGED vars_main

NextAnalise ==
  \/ ExtrairEvento
  \/ ExtrairFim
  \/ ProcessarDisponibilidade
  \/ ProcessarDeNovo
  \/ IniciarConsultas
  \/ BuscarHorariosSalaReferencia
  \/ BuscarSalasLivres
  \/ SugerirSalasAlternativas
  \/ BuscarTodasAulasDoDia
  \/ BuscarTodasAulasSala
  \/ BuscarCursoNoXml
  \/ Retornar

SpecAnalise == InitAnalise /\ [][NextAnalise]_vars

(***************************************************************************)
(* Claims about partial, degenerate and absent bookings                     *)
(***************************************************************************)

\* the positions of the feed whose record carries the six required elements
\* and a non-blank room
RegistrosInteiros ==
  {k \in 1..Len(xml_content) :
     /\ TemTodos(xml_content[k], Campos)
     /\ Len(Strip(Texto(xml_content[k], "sala"))) > 0}

\* the positions of the bookings: whole records that end after they start
ReservasValidas == {k \in RegistrosInteiros : AulaInicio(k) < AulaFim(k)}

\* the positions of the whole records with end <= start
ReservasDegeneradas == {k \in RegistrosInteiros : AulaFim(k) <= AulaInicio(k)}

\* the grid is built
GradePronta == pc \in {"fim", "pronto", "retornou"}

\* C12: when the grid is built, a record with end <= start has made no room
\* occupied in any block, has seeded no block and has not put its room in
\* the registry: each of these is owed to a booking that ends after it starts.
C12_DegeneradaDescartada ==
  GradePronta =>
    \A k \in ReservasDegeneradas :
      /\ AulaSala(k) \in DOMAIN mapa_predios
           => \E j \in ReservasValidas : AulaSala(j) = AulaSala(k)
      /\ Floor30(AulaInicio(k)) \in InicioDosBlocos
           => \E j \in ReservasValidas : Floor30(AulaInicio(j)) = Floor30(AulaInicio(k))
      /\ \A b \in InicioDosBlocos :
           EmitidaOcupada(b, AulaSala(k))
             => \E j \in ReservasValidas : AulaSala(j) = AulaSala(k) /\ Sobrepoe(j, b)

\* the feed without the records that lack one of the elements tags
FeedSemFaltantes(tags) == SelectSeq(xml_content, LAMBDA evento : TemTodos(evento, tags))

\* C13: a record that lacks one of room, building, course, professor, start
\* and end contributes nothing: the occupancy map, the registry, the blocks
\* and every resolver result are those of the feed without such records.
C13_ParcialDescartado ==
  LET inteiros == FeedSemFaltantes(Campos)
      grade == extrair_dados_xml(inteiros)
  IN  /\ GradePronta =>
           /\ mapa_ocupacao_completo = grade.mapa_ocupacao_completo
           /\ mapa_predios = grade.mapa_predios
           /\ horarios_agrupados = grade.horarios_agrupados
      /\ EhHorarios =>
           chamada.ret = buscar_horarios_sala_referencia(inteiros, chamada.sala,
                                                         chamada.predio, chamada.curso_excluir)
      /\ EhLivres =>
           chamada.ret = buscar_salas_livres(inteiros, chamada.predio,
                                             chamada.horarios_bloqueados)
      /\ EhSugerir =>
           chamada.ret = sugerir_salas_alternativas(inteiros, chamada.predio,
                                                    chamada.horarios_bloqueados,
                                                    chamada.salas_excluir,
                                                    chamada.max_sugestoes)

\* C14: on a feed without any booking (a whole record that ends after it
\* starts) the occupancy map, the registry and the block list are empty, the
\* available and occupied lists are empty, and the three resolver functions
\* return empty results.
C14_SemReservasTudoVazio ==
  ReservasValidas = {} =>
    /\ GradePronta =>
         /\ mapa_ocupacao_completo = <<>>
         /\ DOMAIN mapa_predios = {}
         /\ horarios_agrupados = <<>>
         /\ resultado = ResultadoVazio
    /\ EhHorarios => DOMAIN chamada.ret = {}
    /\ EhLivres => chamada.ret = <<>>
    /\ EhSugerir => chamada.ret = <<>>

(***************************************************************************)
(* Claims about queries for rooms and buildings the feed does not name      *)
(***************************************************************************)

\* some record of the feed names the room
FeedNomeiaSala(sala) ==
  \E k \in 1..Len(xml_content) :
    Tem(xml_content[k], "sala") /\ Strip(Texto(xml_content[k], "sala")) = sala

\* some record of the feed names the building
FeedNomeiaPredio(predio) ==
  \E k \in 1..Len(xml_content) :
    Tem(xml_content[k], "predio") /\ Strip(Texto(xml_content[k], "predio")) = predio

\* C15: a query for a room or a building that no record of the feed names
\* returns an empty result: buscar_horarios_sala_referencia an empty mapping,
\* buscar_salas_livres an empty list and sugerir_salas_alternativas an empty
\* text, whatever the blocked intervals.
C15_DesconhecidoVazio ==
  /\ (EhHorarios /\ (~FeedNomeiaSala(chamada.sala) \/ ~FeedNomeiaPredio(chamada.predio)))
       => DOMAIN chamada.ret = {}
  /\ (EhLivres /\ ~FeedNomeiaPredio(chamada.predio)) => chamada.ret = <<>>
  /\ (EhSugerir /\ ~FeedNomeiaPredio(chamada.predio)) => chamada.ret = <<>>

\* buscar_salas_livres is asked, with a blocked interval, for building B on a
\* feed whose bookings are all in building A
C15_Witness ==
  /\ EhLivres
  /\ chamada.predio = PB
  /\ ~FeedNomeiaPredio(PB)
  /\ chamada.horarios_bloqueados # <<>>
  /\ ReservasValidas # {}
  /\ chamada.ret = <<>>

(***************************************************************************)
(* Claims about the effects of the calls                                    *)
(***************************************************************************)

\* extrair_dados_xml has returned
ExtracaoFeita == pc \in {"processar", "fim", "pronto", "retornou"}

\* C16: once extrair_dados_xml has returned, no step, that is no call of
\* processar_disponibilidade, buscar_horarios_sala_referencia,
\* buscar_salas_livres or sugerir_salas_alternativas, changes the feed, the
\* occupancy map, the registry or the block list, and what a call returns is
\* the function of its own arguments, whatever calls came before it.
C16_SemEfeito ==
  [][ExtracaoFeita =>
        /\ xml_content' = xml_content
        /\ mapa_ocupacao_completo' = mapa_ocupacao_completo
        /\ mapa_predios' = mapa_predios
        /\ horarios_agrupados' = horarios_agrupados
        /\ resultado' # resultado =>
             resultado' = processar_disponibilidade(mapa_ocupacao_completo, mapa_predios,
                                                    horarios_agrupados)
        /\ GradePronta' =>
             resultado' = processar_disponibilidade(mapa_ocupacao_completo, mapa_predios,
                                                    horarios_agrupados)
        /\ EhHorarios' =>
             chamada'.ret = buscar_horarios_sala_referencia(xml_content, chamada'.sala,
                              chamada'.predio, chamada'.curso_excluir)
        /\ EhLivres' =>
             chamada'.ret = buscar_salas_livres(xml_content, chamada'.predio,
                                                chamada'.horarios_bloqueados)
        /\ EhSugerir' =>
             chamada'.ret = sugerir_salas_alternativas(xml_content, chamada'.predio,
                              chamada'.horarios_bloqueados, chamada'.salas_excluir,
                              chamada'.max_sugestoes)]_vars

\* after the grid was built from a feed with bookings, buscar_salas_livres
\* has returned rooms and the collections of the grid are still populated
C16_Witness ==
  /\ pc = "retornou"
  /\ EhLivres
  /\ chamada.ret # <<>>
  /\ mapa_ocupacao_completo # <<>>
  /\ resultado.salas_ocupadas # <<>>

(***************************************************************************)
(* A second build of the grid, under any iteration order of the block set   *)
(***************************************************************************)

\* PYTHONHASHSEED: the order in which a set of str is iterated differs from
\* one interpreter run to the next; two orders stand for all of them
Sementes == {0, 1}

\* list(conjunto): ascending under one seed, descending under the other
ListaDoConjunto(conjunto, semente) ==
  LET crescente == SortedStr(conjunto)
  IN  IF semente = 0 THEN crescente
      ELSE [k \in 1..Len(crescente) |-> crescente[Len(crescente) + 1 - k]]

\* the list as it is where the code sorts it
sorted_SemOrdenar(lista) == lista

\* sorted(lista)
sorted(lista) == SortedStr(Elementos(lista))

\* extrair_dados_xml then processar_disponibilidade, as main() calls them,
\* in an interpreter run with the given seed
ConstruirGrade(xml, semente) ==
  LET extraido == ExtrairAte(xml, Len(xml))
      conjunto_agrupado == Elementos(agrupar_horarios_30min(extraido.todos))
      blocos == sorted(ListaDoConjunto(conjunto_agrupado, semente))
  IN  [mapa_predios |-> extraido.predios,
       horarios_agrupados |-> blocos,
       resultado |-> processar_disponibilidade(extraido.mapa, extraido.predios, blocos)]

\* the grid is built again from the same feed
Reconstruir ==
  /\ pc = "fim"
  /\ \E semente \in Sementes :
       chamada' = [op |-> "construir_grade", semente |-> semente,
                   ret |-> ConstruirGrade(xml_content, semente)]
  /\ UNCHANGED <<xml_content, pc, idx, mapa_ocupacao_completo, mapa_predios,
                 todos_horarios_originais, horarios_agrupados, resultado>>
  /\ UNCHANGED vars_main

NextReconstrucao ==
  \/ ExtrairEvento
  \/ ExtrairFim
  \/ ProcessarDisponibilidade
  \/ Reconstruir

SpecReconstrucao == Init /\ [][NextReconstrucao]_vars

\* C17: the grid built a second time from the same feed, in whatever order
\* the interpreter iterates its sets, has the block list, the registry and
\* the available and occupied lists of the first build.
C17_SegundaIgual ==
  chamada.op = "construir_grade" =>
    /\ chamada.ret.horarios_agrupados = horarios_agrupados
    /\ chamada.ret.mapa_predios = mapa_predios
    /\ chamada.ret.resultado = resultado

\* the second build iterated the set of at least two blocks in the other
\* order, and the feed has an occupied and an available record
C17_Witness ==
  /\ chamada.op = "construir_grade"
  /\ chamada.semente = 1
  /\ Len(horarios_agrupados) >= 2
  /\ resultado.salas_ocupadas # <<>>
  /\ resultado.salas_disponiveis # <<>>

(***************************************************************************)
(* Claims about the lists of AulaCurso                                      *)
(***************************************************************************)

EhLista ==
  chamada.op \in {"buscar_todas_aulas_do_dia", "buscar_todas_aulas_sala",
                  "buscar_curso_no_xml"}

\* the record at position k carries the six elements and is one the call
\* asks for
Selecionado(k) ==
  /\ TemTodos(xml_content[k], Campos)
  /\ chamada.op = "buscar_todas_aulas_sala" =>
       AulaSala(k) = chamada.sala /\ AulaPredio(k) = chamada.predio
  /\ chamada.op = "buscar_curso_no_xml" =>
       Upper(AulaCurso(k)) = Upper(chamada.curso_buscado)

\* the selected records among the first k, one per key (curso, sala, predio,
\* horario_inicio, horario_termino), in feed order
RECURSIVE SemRepetidosAte(_)
SemRepetidosAte(k) ==
  IF k = 0 THEN <<>>
  ELSE IF Selecionado(k)
       THEN AppendAula_SemRepetir(SemRepetidosAte(k - 1), AulaObj(xml_content[k]))
       ELSE SemRepetidosAte(k - 1)

\* C18: the list returned by buscar_todas_aulas_do_dia, buscar_todas_aulas_sala
\* and buscar_curso_no_xml holds one booking per key (course, room, building,
\* start, end) and keeps the order of the feed.
C18_ListaSemRepetidos ==
  EhLista => chamada.ret = SemRepetidosAte(Len(xml_content))

(***************************************************************************)
(* The entry points: main() of main.py and of buscar_curso.py               *)
(***************************************************************************)

MAX_RETRIES == 3

\* the configuration of buscar_curso.py; the texts stand for the configured
\* course, room and building
CURSO_BUSCADO == CS
SALA_REFERENCIA == S101
PREDIO_REFERENCIA == PA

\* the value None
RetornoNone == [tipo |-> "none"]

\* an event of the configured course in the configured room, one of another
\* course in another room, and an event extrair_dados_xml skips
EventosMain ==
  {Evento(<<S101>>, <<PA>>, <<CS>>, <<Prof>>, <<H1000>>, <<H1100>>, <<>>),
   Evento(<<S102>>, <<PA>>, <<MA>>, <<Prof>>, <<H0900>>, <<H1030>>, <<>>),
   Evento(<<S102>>, <<PA>>, <<>>, <<Prof>>, <<H0900>>, <<H1030>>, <<>>)}

\* what the URL serves: no bytes, or a document with some events
Corpos ==
  {CorpoVazio} \cup {[bytes |-> "xml", eventos |-> feed] : feed \in Feeds(EventosMain)}

InitMain ==
  /\ programa \in {"main.py", "buscar_curso.py"}
  /\ servidor \in Corpos
  /\ max_tentativas \in 0..MAX_RETRIES
  /\ tentativa = 0
  /\ erros = 0
  /\ retorno = Pendente
  /\ passos = <<>>
  /\ pc = "buscar"
  /\ xml_content = <<>>
  /\ idx = 0
  /\ mapa_ocupacao_completo = <<>>
  /\ mapa_predios = <<>>
  /\ todos_horarios_originais = {}
  /\ horarios_agrupados = <<>>
  /\ resultado = ResultadoVazio
  /\ chamada = SemChamada

\* an attempt whose requests.get and raise_for_status succeed: return
\* response.content
TentativaSucesso ==
  /\ pc = "buscar"
  /\ tentativa < max_tentativas
  /\ tentativa' = tentativa + 1
  /\ retorno' = [tipo |-> "bytes", conteudo |-> servidor]
  /\ pc' = "verificar"
  /\ UNCHANGED <<xml_content, idx, mapa_ocupacao_completo, mapa_predios,
                 todos_horarios_originais, horarios_agrupados, resultado, chamada,
                 programa, servidor, max_tentativas, erros, passos>>

\* the last failed attempt hands back a body of zero bytes
TentativaErro_DevolveVazio ==
  /\ pc = "buscar"
  /\ tentativa < max_tentativas
  /\ tentativa' = tentativa + 1
  /\ erros' = erros + 1
  /\ IF tentativa + 1 = max_tentativas
     THEN retorno' = [tipo |-> "bytes", conteudo |-> CorpoVazio] /\ pc' = "verificar"
     ELSE UNCHANGED <<retorno, pc>>
  /\ UNCHANGED <<xml_content, idx, mapa_ocupacao_completo, mapa_predios,
                 todos_horarios_originais, horarios_agrupados, resultado, chamada,
                 programa, servidor, max_tentativas, passos>>

\* an attempt that raises a RequestException: return None when it was the
\* last one, else go on with the next
TentativaErro ==
  /\ pc = "buscar"
  /\ tentativa < max_tentativas
  /\ tentativa' = tentativa + 1
  /\ erros' = erros + 1
  /\ IF tentativa + 1 = max_tentativas
     THEN retorno' = RetornoNone /\ pc' = "verificar"
     ELSE UNCHANGED <<retorno, pc>>
  /\ UNCHANGED <<xml_content, idx, mapa_ocupacao_completo, mapa_predios,
                 todos_horarios_originais, horarios_agrupados, resultado, chamada,
                 programa, servidor, max_tentativas, passos>>

\* range(1, max_tentativas + 1) is exhausted without a return: the return
\* None after the loop
SemTentativas ==
  /\ pc = "buscar"
  /\ tentativa >= max_tentativas
  /\ retorno' = RetornoNone
  /\ pc' = "verificar"
  /\ UNCHANGED <<xml_content, idx, mapa_ocupacao_completo, mapa_predios,
                 todos_horarios_originais, horarios_agrupados, resultado, chamada,
                 programa, servidor, max_tentativas, tentativa, erros, passos>>

buscar_xml_com_retry == TentativaSucesso \/ TentativaErro \/ SemTentativas

\* "not xml_content": None or zero bytes
SemConteudo(valor) ==
  valor.tipo = "none" \/ (valor.tipo = "bytes" /\ valor.conteudo.bytes = "vazio")

\* main() goes on to parse whatever the fetch returned
VerificarFetch_SemRetorno ==
  /\ pc = "verificar"
  /\ xml_content' = IF SemConteudo(retorno) THEN <<>> ELSE retorno.conteudo.eventos
  /\ pc' = IF programa = "main.py" THEN "m_extrair" ELSE "c_buscar"
  /\ UNCHANGED <<idx, mapa_ocupacao_completo, mapa_predios, todos_horarios_originais,
                 horarios_agrupados, resultado, chamada>>
  /\ UNCHANGED vars_main

\* xml_content = buscar_xml_com_retry(XML_URL); if not xml_content: return
VerificarFetch ==
  /\ pc = "verificar"
  /\ IF SemConteudo(retorno)
     THEN pc' = "fim" /\ UNCHANGED xml_content
     ELSE /\ xml_content' = retorno.conteudo.eventos
          /\ pc' = IF programa = "main.py" THEN "m_extrair" ELSE "c_buscar"
  /\ UNCHANGED <<idx, mapa_ocupacao_completo, mapa_predios, todos_horarios_originais,
                 horarios_agrupados, resultado, chamada>>
  /\ UNCHANGED vars_main

\* main.py 483-487: extrair_dados_xml, then return when no block was found
MainExtrair ==
  /\ pc = "m_extrair"
  /\ LET extraido == ExtrairAte(xml_content, Len(xml_content))
         dados == extrair_dados_xml(xml_content)
     IN  /\ mapa_ocupacao_completo' = dados.mapa_ocupacao_completo
         /\ mapa_predios' = dados.mapa_predios
         /\ horarios_agrupados' = dados.horarios_agrupados
         /\ todos_horarios_originais' = extraido.todos
         /\ pc' = IF dados.horarios_agrupados = <<>> THEN "fim" ELSE "m_processar"
  /\ idx' = Len(xml_content)
  /\ passos' = Append(passos, "extrair_dados_xml")
  /\ UNCHANGED <<xml_content, resultado, chamada, programa, servidor, max_tentativas,
                 tentativa, erros, retorno>>

\* main.py 490-497: processar_disponibilidade, then return when no room was found
MainProcessar ==
  /\ pc = "m_processar"
  /\ resultado' = processar_disponibilidade(mapa_ocupacao_completo, mapa_predios,
                                            horarios_agrupados)
  /\ pc' = IF resultado'.salas_disponiveis = <<>> /\ resultado'.salas_ocupadas = <<>>
           THEN "fim" ELSE "m_exportar"
  /\ passos' = Append(passos, "processar_disponibilidade")
  /\ UNCHANGED <<xml_content, idx, mapa_ocupacao_completo, mapa_predios,
                 todos_horarios_originais, horarios_agrupados, chamada, programa,
                 servidor, max_tentativas, tentativa, erros, retorno>>

\* main.py 500-505: gerar_timestamp, salvar_json, criar_xlsx_estilizado
MainExportar ==
  /\ pc = "m_exportar"
  /\ passos' = passos \o <<"salvar_json", "criar_xlsx_estilizado">>
  /\ pc' = "m_resumo"
  /\ UNCHANGED <<xml_content, idx, mapa_ocupacao_completo, mapa_predios,
                 todos_horarios_originais, horarios_agrupados, resultado, chamada,
                 programa, servidor, max_tentativas, tentativa, erros, retorno>>

\* main.py 507-518: the summary
MainResumo ==
  /\ pc = "m_resumo"
  /\ passos' = Append(passos, "resumo")
  /\ pc' = "fim"
  /\ UNCHANGED <<xml_content, idx, mapa_ocupacao_completo, mapa_predios,
                 todos_horarios_originais, horarios_agrupados, resultado, chamada,
                 programa, servidor, max_tentativas, tentativa, erros, retorno>>

\* buscar_curso.py 833-838: the two lists of the report
CursoBuscar ==
  /\ pc = "c_buscar"
  /\ chamada' = [op |-> "main",
                 aulas_curso |-> buscar_curso_no_xml(xml_content, CURSO_BUSCADO),
                 todas_aulas_sala |-> buscar_todas_aulas_sala(xml_content, SALA_REFERENCIA,
                                                              PREDIO_REFERENCIA)]
  /\ passos' = passos \o <<"buscar_curso_no_xml", "buscar_todas_aulas_sala">>
  /\ pc' = "c_imprimir"
  /\ UNCHANGED <<xml_content, idx, mapa_ocupacao_completo, mapa_predios,
                 todos_horarios_originais, horarios_agrupados, resultado, programa,
                 servidor, max_tentativas, tentativa, erros, retorno>>

\* buscar_curso.py 841-846: print(formatar_horarios_sala_e_curso(...))
CursoImprimir ==
  /\ pc = "c_imprimir"
  /\ passos' = Append(passos, "print")
  /\ pc' = "fim"
  /\ UNCHANGED <<xml_content, idx, mapa_ocupacao_completo, mapa_predios,
                 todos_horarios_originais, horarios_agrupados, resultado, chamada,
                 programa, servidor, max_tentativas, tentativa, erros, retorno>>

NextMain ==
  \/ TentativaSucesso
  \/ TentativaErro
  \/ SemTentativas
  \/ VerificarFetch
  \/ MainExtrair
  \/ MainProcessar
  \/ MainExportar
  \/ MainResumo
  \/ CursoBuscar
  \/ CursoImprimir

SpecMain == InitMain /\ [][NextMain]_vars

\* requests.get(url, timeout=REQUEST_TIMEOUT) returns or raises, so the loop
\* of buscar_xml_com_retry always takes its next step
SpecMainJusta == SpecMain /\ WF_vars(buscar_xml_com_retry)

(***************************************************************************)
(* Claims about the fetch and the entry points                              *)
(***************************************************************************)

\* the positions of passos that hold one of the given steps
PosicoesDe(nomes) == {n \in 1..Len(passos) : passos[n] \in nomes}

\* C19: in either entry point nothing runs before the fetch has returned, and
\* when it returned no payload nothing runs at all: no extraction, no
\* processing, no export, no list building and no printing; an export step
\* has extrair_dados_xml and then processar_disponibilidade before it.
C19_FalhaAntesDeTudo ==
  /\ (retorno = Pendente \/ retorno = RetornoNone) => passos = <<>>
  /\ \A n \in PosicoesDe({"salvar_json", "criar_xlsx_estilizado"}) :
       \E i \in PosicoesDe({"extrair_dados_xml"}),
          j \in PosicoesDe({"processar_disponibilidade"}) : i < j /\ j < n

\* every attempt of the default three raised, and main() has returned
C19_Witness ==
  /\ retorno = RetornoNone
  /\ max_tentativas = MAX_RETRIES
  /\ erros = MAX_RETRIES
  /\ pc = "fim"
  /\ passos = <<>>

\* what holds of buscar_xml_com_retry in every state
RetryInv ==
  /\ tentativa <= max_tentativas
  /\ erros <= tentativa
  /\ retorno = Pendente => erros = tentativa
  /\ retorno # Pendente =>
       /\ retorno = RetornoNone <=> erros = max_tentativas
       /\ retorno # RetornoNone =>
            /\ retorno = [tipo |-> "bytes", conteudo |-> servidor]
            /\ erros = tentativa - 1

\* C20: buscar_xml_com_retry returns, after at most max_tentativas requests;
\* the request that succeeds is the last one made, every earlier one raised,
\* and the value returned is the complete body served; None is returned
\* exactly when each of the max_tentativas requests raised; once it has
\* returned no further request is made.
C20_RetryLimitado ==
  /\ []RetryInv
  /\ [][retorno # Pendente => tentativa' = tentativa /\ retorno' = retorno]_vars
  /\ <>(retorno # Pendente)

\* the third request succeeded after two that raised, and the body served
\* was returned
C20_Witness ==
  /\ max_tentativas = MAX_RETRIES
  /\ tentativa = MAX_RETRIES
  /\ erros = 2
  /\ servidor # CorpoVazio
  /\ retorno = [tipo |-> "bytes", conteudo |-> servidor]

(***************************************************************************)
(* Claims about the shape of the results                                    *)
(***************************************************************************)

\* the rooms of the call's building, read from the events
SalasDoPredio ==
  {AulaSala(k) : k \in {j \in AulasComHorario : AulaPredio(j) = chamada.predio}}

\* the rooms of the call's building none of whose bookings has the (start,
\* end) of a blocked interval
SalasQualificadas ==
  {r \in SalasDoPredio :
     \A k \in AulasComHorario :
       (AulaSala(k) = r /\ AulaPredio(k) = chamada.predio)
         => AulaIntervalo(k) \notin Elementos(chamada.horarios_bloqueados)}

\* C21: buscar_salas_livres returns one entry for every room of the building
\* that has no booking equal to any blocked interval and for every blocked
\* interval, and nothing else: a room with a booking equal to one blocked
\* interval has no entry at all, the number of entries is (qualifying rooms)
\* x (blocked intervals), and no entry is returned for the empty blocked set.
C21_FiltroConjuntivo ==
  EhLivres =>
    LET ret == chamada.ret
        bloqueados == Elementos(chamada.horarios_bloqueados)
    IN  /\ Len(ret) = Cardinality(SalasQualificadas) * Cardinality(bloqueados)
        /\ \A n \in 1..Len(ret) :
             /\ ret[n].sala \in SalasQualificadas
             /\ ret[n].predio = chamada.predio
             /\ <<ret[n].horario_inicio, ret[n].horario_termino>> \in bloqueados
        /\ \A r \in SalasQualificadas, h \in bloqueados :
             Cardinality({n \in 1..Len(ret) :
                            /\ ret[n].sala = r
                            /\ <<ret[n].horario_inicio, ret[n].horario_termino>> = h}) = 1
        /\ bloqueados = {} => ret = <<>>

\* two intervals are blocked; one room of the building is booked at one of
\* them only and has no entry, another room qualifies and has two entries
C21_Witness ==
  /\ EhLivres
  /\ Len(chamada.horarios_bloqueados) = 2
  /\ Cardinality(SalasQualificadas) = 1
  /\ Len(chamada.ret) = 2
  /\ \E r \in SalasDoPredio \ SalasQualificadas :
       \E h \in Elementos(chamada.horarios_bloqueados) :
         \A k \in AulasComHorario :
           (AulaSala(k) = r /\ AulaPredio(k) = chamada.predio) => AulaIntervalo(k) # h

\* the positions of a list of records that are of room r in the block at b
PosicoesDoRegistro(lista, b, r) ==
  {n \in 1..Len(lista) : lista[n].horario = RotuloBloco(b) /\ lista[n].sala = r}

\* C22: after processar_disponibilidade, every block of the block list and
\* every room of the registry have exactly one record, in the available list
\* or in the occupied list and not in both; the two lists together hold
\* (blocks) x (registry rooms) records, all of them of registry rooms.
C22_Particao ==
  pc = "fim" =>
    /\ \A b \in InicioDosBlocos, r \in DOMAIN mapa_predios :
         Cardinality(PosicoesDoRegistro(resultado.salas_disponiveis, b, r))
           + Cardinality(PosicoesDoRegistro(resultado.salas_ocupadas, b, r)) = 1
    /\ Len(resultado.salas_disponiveis) + Len(resultado.salas_ocupadas)
         = Len(horarios_agrupados) * Cardinality(DOMAIN mapa_predios)
    /\ \A x \in Elementos(resultado.salas_disponiveis) \cup Elementos(resultado.salas_ocupadas) :
         x.sala \in DOMAIN mapa_predios

\* two blocks and two registry rooms: four records, some available and some
\* occupied
C22_Witness ==
  /\ pc = "fim"
  /\ Len(horarios_agrupados) = 2
  /\ Cardinality(DOMAIN mapa_predios) = 2
  /\ resultado.salas_disponiveis # <<>>
  /\ resultado.salas_ocupadas # <<>>

\* C23: after the grid is built, for every booking that ends after it starts
\* the block that starts at its start time floored to 30 minutes is in the
\* block list and the booking's room is emitted as occupied in that block,
\* whatever other bookings the feed has.
C23_ReservaVisivel ==
  pc = "fim" =>
    \A k \in Aulas :
      AulaInicio(k) < AulaFim(k) =>
        /\ Floor30(AulaInicio(k)) \in InicioDosBlocos
        /\ EmitidaOcupada(Floor30(AulaInicio(k)), AulaSala(k))

\* a booking that starts at 09:47, off the half-hour, beside another booking
C23_Witness ==
  /\ pc = "fim"
  /\ Len(xml_content) = 2
  /\ \E k \in Aulas :
       /\ AulaInicio(k) # Floor30(AulaInicio(k))
       /\ AulaInicio(k) < AulaFim(k)
       /\ EmitidaOcupada(Floor30(AulaInicio(k)), AulaSala(k))
  /\ Cardinality(Aulas) = 2

(***************************************************************************)
(* Claims about the extraction loop and the registry                        *)
(***************************************************************************)

\* the loop is about to examine an event that lacks one of the elements it
\* reads, or whose room is blank
ProximoSaltado ==
  /\ pc = "extrair"
  /\ idx < Len(xml_content)
  /\ LET evento == xml_content[idx + 1]
     IN  \/ \E tag \in {"sala", "predio", "horainicio", "horatermino", "turma"} :
              ~Tem(evento, tag)
         \/ Strip(Texto(evento, "sala")) = <<>>

\* C24: the iteration of extrair_dados_xml that skips a record, because an
\* element is absent or the room is blank, leaves the occupancy map, the
\* registry and the set of observed intervals exactly as they were, at
\* whatever position of the feed the record is.
C24_DescarteAtomico ==
  [][ProximoSaltado =>
       /\ mapa_ocupacao_completo' = mapa_ocupacao_completo
       /\ mapa_predios' = mapa_predios
       /\ todos_horarios_originais' = todos_horarios_originais]_vars

\* the second record of the feed, which names a room and a building but no
\* course, was skipped after a first record was stored
C24_Witness ==
  /\ pc = "extrair"
  /\ idx = 2
  /\ ~Tem(xml_content[2], "turma")
  /\ Tem(xml_content[2], "sala") /\ Tem(xml_content[2], "predio")
  /\ Len(mapa_ocupacao_completo) = 1
  /\ Cardinality(DOMAIN mapa_predios) = 1
  /\ Strip(Texto(xml_content[2], "sala")) \notin DOMAIN mapa_predios

\* the valid records the loop has examined so far
AulasExaminadas == {k \in Aulas : k <= idx}

\* the last examined valid record that names room r
UltimaDaSala(r) ==
  CHOOSE k \in AulasExaminadas :
    /\ AulaSala(k) = r
    /\ \A j \in AulasExaminadas : AulaSala(j) = r => j <= k

\* C25: after any number of records, the keys of the registry are exactly
\* the room names of the valid records examined, each mapped to the building
\* of the last valid record that names it, and every room of the occupancy
\* map is a key of the registry.
C25_RegistroUltimoPredio ==
  /\ DOMAIN mapa_predios = {AulaSala(k) : k \in AulasExaminadas}
  /\ \A r \in DOMAIN mapa_predios : mapa_predios[r] = AulaPredio(UltimaDaSala(r))
  /\ \A n \in 1..Len(mapa_ocupacao_completo) :
       DOMAIN mapa_ocupacao_completo[n].salas \subseteq DOMAIN mapa_predios

\* room 101 was named first in building A and then in building B: the
\* registry has the one entry 101 -> B
C25_Witness ==
  /\ idx = 2
  /\ AulasExaminadas = {1, 2}
  /\ AulaSala(1) = S101 /\ AulaPredio(1) = PA
  /\ AulaSala(2) = S101 /\ AulaPredio(2) = PB
  /\ DOMAIN mapa_predios = {S101}
  /\ mapa_predios[S101] = PB

====
